---- MODULE Spec2Model ----
(***************************************************************************)
(* Model of the two ingestion servers of the repository:                   *)
(*   server/soil_server.py           (variant "basic", type-aware)         *)
(*   server/enhanced_soil_server.py  (variant "enhanced")                  *)
(* One deployment runs one of them; Init chooses which.  A request is      *)
(* handled by one handler object, step by step, in the order of the        *)
(* statements of do_POST / do_GET / save_to_csv.  The filesystem is the    *)
(* data directory, the set of ledger files that exist and their contents.  *)
(* File I/O may fail at open() and at the flush that closes the file.      *)
(***************************************************************************)
EXTENDS Integers, Sequences, FiniteSets, TLC

----------------------------------------------------------------------------
(* Bounds of the model *)

MaxReq == 2

MaxDay == 2

Rids == 1..MaxReq

Days == 1..MaxDay

----------------------------------------------------------------------------
(* Requests *)

Variants == {"basic", "enhanced"}

Methods == {"POST", "GET", "PUT"}

Paths == {"/soil-data", "/status", "/test", "/foo"}

\* The JSON object of a POST /soil-data body: every key is absent or present.
PresentOrAbsent ==
    [ body : {"object"},
      device_id : {"absent", "ok"},
      timestamp : {"absent", "ok"},
      voltage : {"absent", "ok"},
      type : {"absent", "soil", "battery", "other"},
      moisture_percent : {"absent", "ok"},
      raw_adc : {"absent", "ok"} ]

\* An object with every key, whose timestamp is not a number.
WrongType ==
    [ body : {"object"},
      device_id : {"ok"},
      timestamp : {"bad"},
      voltage : {"ok"},
      type : {"absent", "soil", "battery", "other"},
      moisture_percent : {"ok"},
      raw_adc : {"ok"} ]

ObjectBodies == PresentOrAbsent \cup WrongType

\* A body that is no JSON object: bytes that are not UTF-8, text that is not
\* JSON, a body cut short of the declared length, a JSON value that is no object.
NoObject(b) ==
    [ body |-> b, device_id |-> "absent", timestamp |-> "absent",
      voltage |-> "absent", type |-> "absent",
      moisture_percent |-> "absent", raw_adc |-> "absent" ]

OtherBodies == { NoObject(b) : b \in {"badutf8", "badjson", "truncated", "nonobject"} }

Wire(m, p, c, b) ==
    [ method |-> m, path |-> p, clen |-> c, body |-> b.body,
      device_id |-> b.device_id, timestamp |-> b.timestamp,
      voltage |-> b.voltage, type |-> b.type,
      moisture_percent |-> b.moisture_percent, raw_adc |-> b.raw_adc ]

\* The request lines a client can send.
RequestLines == Methods \X Paths

\* The Content-Length header: the length of the body, absent, or not a number.
ContentLengths == {"ok", "missing", "bad"}

\* The bodies a client can send to POST /soil-data.
Bodies == ObjectBodies \cup OtherBodies

NoReq == Wire("none", "none", "none", NoObject("none"))

----------------------------------------------------------------------------
(* Ledger files *)

Kinds == {"soil", "battery"}

Files == Kinds \X Days

SoilFields == <<"timestamp", "device_id", "moisture_percent", "voltage", "raw_adc", "data_type">>

BatteryFields == <<"timestamp", "device_id", "voltage", "data_type">>

EnhancedFields == <<"timestamp", "device_id", "moisture_percent", "voltage", "raw_adc">>

NoFile == <<"soil", 0>>

VARIABLES
    variant,      \* which server is deployed
    today,        \* the calendar day of the wall clock
    dirExists,    \* the data directory exists
    exists,       \* the ledger files that exist
    ledger,       \* the entries of each ledger file, in file order
    pending,      \* connections waiting in the listen queue
    accepted,     \* connections accepted so far
    pc,           \* position of the handler of each request
    req,          \* the request a handler is serving
    resp,         \* the responses written to the connection of each request
    answered,     \* the status codes each request was answered with, kept after
                  \* the connection is closed
    console,      \* the lines printed while serving each request
    loc,          \* local variables of save_to_csv and the caught exception
    snap,         \* the filesystem when the request was accepted
    failedAppend  \* ledger files hit by a failed append

vars == << variant, today, dirExists, exists, ledger, pending, accepted,
           pc, req, resp, answered, console, loc, snap, failedAppend >>

fsvars == << dirExists, exists, ledger >>

----------------------------------------------------------------------------
(* Pure parts of the handlers *)

\* data.get('type', 'soil'); the enhanced server never reads the key.
DataType(v, q) ==
    IF v = "enhanced" THEN "soil"
    ELSE IF q.type = "absent" THEN "soil" ELSE q.type

\* PrintedKeys with a summary that does not format the voltage.
PrintedKeysNoVoltage(v, q) ==
    IF v = "enhanced" \/ DataType(v, q) = "soil"
    THEN <<"device_id", "moisture_percent", "raw_adc">>
    ELSE <<"device_id">>

\* The keys the console summary formats, in the order it formats them.
PrintedKeys(v, q) ==
    IF v = "enhanced" \/ DataType(v, q) = "soil"
    THEN <<"device_id", "moisture_percent", "voltage", "raw_adc">>
    ELSE <<"device_id", "voltage">>

\* Index of the first key of ks that the body lacks, 0 when it has them all.
RECURSIVE FirstMissing(_, _, _)
FirstMissing(q, ks, i) ==
    IF i > Len(ks) THEN 0
    ELSE IF q[ks[i]] = "absent" THEN i
    ELSE FirstMissing(q, ks, i + 1)

\* The exception raised between json.loads and the end of the console summary,
\* "none" when there is none.
DecodeError(v, q) ==
    IF q.body = "badutf8" THEN "UnicodeDecodeError"
    ELSE IF q.body \in {"badjson", "truncated"} THEN "JSONDecodeError"
    ELSE IF q.body # "object" THEN "TypeError"
    ELSE IF q.timestamp = "absent" THEN "KeyError:timestamp"
    ELSE IF q.timestamp = "bad" THEN "TypeError"
    ELSE LET ks == PrintedKeys(v, q)
             i == FirstMissing(q, ks, 1)
         IN IF i = 0 THEN "none" ELSE "KeyError:" \o ks[i]

\* The lines printed before the exception, or all of them.  The basic server
\* prints one line for the whole reading; the enhanced server prints one line
\* per key and a separator, so the lines before a missing key are printed.
ConsoleLines(v, q) ==
    LET ks == PrintedKeys(v, q)
        i == FirstMissing(q, ks, 1)
    IN IF q.body # "object" \/ q.timestamp # "ok" THEN << >>
       ELSE IF v = "basic" THEN (IF i = 0 THEN << "summary" >> ELSE << >>)
       ELSE IF i = 0 THEN ks \o << "separator" >>
       ELSE SubSeq(ks, 1, i - 1)

\* StepAfter with the 200 response sent before save_to_csv is called.
StepAfterAckFirst(step) ==
    CASE step = "decode" -> "respond"
      [] step = "respond" -> "save"
      [] step = "save" -> "done"

\* The order of the statements of the try block: console summary, save_to_csv,
\* then the 200 response.
StepAfter(step) ==
    CASE step = "decode" -> "save"
      [] step = "save" -> "respond"
      [] step = "respond" -> "done"

\* FileFor with every record type in the soil ledger.
FileForSoilOnly(v, dataType, day) == << "soil", day >>

\* The ledger file save_to_csv appends to.
FileFor(v, dataType, day) ==
    IF v = "basic" /\ dataType = "battery" THEN << "battery", day >>
    ELSE << "soil", day >>

\* The header columns of that file.
FieldsFor(v, dataType) ==
    IF v = "enhanced" THEN EnhancedFields
    ELSE IF dataType = "battery" THEN BatteryFields
    ELSE SoilFields

\* data.get(key, 0)
GetOrZero(value, token) == IF value = "absent" THEN "0" ELSE token

\* The values of the row, in column order.
RowVals(v, q) ==
    IF v = "enhanced" THEN << "iso", "dev", "m", "v", "adc" >>
    ELSE IF DataType(v, q) = "battery" THEN << "iso", "dev", "v", "battery" >>
    ELSE << "iso", "dev", GetOrZero(q.moisture_percent, "m"), "v",
            GetOrZero(q.raw_adc, "adc"), DataType(v, q) >>

Header(fields) == [ kind |-> "header", rid |-> 0, cols |-> fields, vals |-> << >> ]

Row(r, fields, values) == [ kind |-> "row", rid |-> r, cols |-> fields, vals |-> values ]

Torn(r) == [ kind |-> "torn", rid |-> r, cols |-> << >>, vals |-> << >> ]

\* FileExists that never finds the file (the wrong path is tested).
FileNeverExists(f) == FALSE

\* os.path.isfile(filename) / csv_file.exists()
FileExists(f) == f \in exists

\* What a failed flush can leave in the file: a proper prefix of the buffered
\* entries, possibly followed by a fragment of the next one.
PartialWrites(buf, r) ==
    { SubSeq(buf, 1, k) \o t : k \in 0..(Len(buf) - 1), t \in { << >>, << Torn(r) >> } }

\* Whether the class defines do_<METHOD>; the base class answers 501 otherwise.
HasHandler(v, m) == m = "POST" \/ (v = "enhanced" /\ m = "GET")

Response(status, body, message) == [ status |-> status, body |-> body, message |-> message ]

FsNow == [ dir |-> dirExists, exists |-> exists, ledger |-> ledger ]

NoSnap == [ dir |-> FALSE, exists |-> {}, ledger |-> [ f \in Files |-> << >> ] ]

NoLoc == [ filename |-> NoFile, file_exists |-> FALSE, buf |-> << >>, err |-> "none" ]

\* ServerIdle of a server that starts a thread per connection.
ThreadPerConnection == TRUE

\* HTTPServer.serve_forever handles one connection to its end before it
\* accepts the next one.
ServerIdle == \A r \in Rids : pc[r] \in {"idle", "closed"}

----------------------------------------------------------------------------
(* Initial state: a fresh deployment of either server *)

Init ==
    /\ variant \in Variants
    /\ today = 1
    /\ dirExists = FALSE
    /\ exists = {}
    /\ ledger = [ f \in Files |-> << >> ]
    /\ pending = 0
    /\ accepted = 0
    /\ pc = [ r \in Rids |-> "idle" ]
    /\ req = [ r \in Rids |-> NoReq ]
    /\ resp = [ r \in Rids |-> << >> ]
    /\ answered = [ r \in Rids |-> << >> ]
    /\ console = [ r \in Rids |-> << >> ]
    /\ loc = [ r \in Rids |-> NoLoc ]
    /\ snap = [ r \in Rids |-> NoSnap ]
    /\ failedAppend = {}

----------------------------------------------------------------------------
(* Environment *)

\* A client connects and sends a request; it waits in the listen queue.
Connect ==
    /\ accepted + pending < MaxReq
    /\ pending' = pending + 1
    /\ UNCHANGED << variant, today, dirExists, exists, ledger, accepted,
                    pc, req, resp, answered, console, loc, snap, failedAppend >>

\* Midnight passes.  A handler reads the date once, when save_to_csv names
\* the file, so a midnight during any other step of a handler is the same as
\* one right before that step or right after the handler.
Tick ==
    /\ today < MaxDay
    /\ \A r \in Rids : pc[r] \in {"idle", "closed", "save"}
    /\ today' = today + 1
    /\ UNCHANGED << variant, dirExists, exists, ledger, pending, accepted,
                    pc, req, resp, answered, console, loc, snap, failedAppend >>

\* The process is stopped between two requests and started again: the listen
\* queue is lost, the files stay.  The handlers keep nothing in memory.
Restart ==
    /\ ServerIdle
    /\ pending' = 0
    /\ UNCHANGED << variant, today, dirExists, exists, ledger, accepted,
                    pc, req, resp, answered, console, loc, snap, failedAppend >>

----------------------------------------------------------------------------
(* The handler of one request *)

\* The server accepts the next connection and constructs its handler; the
\* constructor of the enhanced server creates the data directory.  The
\* request line is read; headers and body are read by do_POST on /soil-data.
Accept(r) ==
    /\ ServerIdle
    /\ pending > 0
    /\ r = accepted + 1
    /\ pc[r] = "idle"
    /\ \E line \in RequestLines :
          req' = [ req EXCEPT ![r] = Wire(line[1], line[2], "none", NoObject("none")) ]
    /\ pending' = pending - 1
    /\ accepted' = r
    /\ snap' = [ snap EXCEPT ![r] = FsNow ]
    /\ dirExists' = (dirExists \/ variant = "enhanced")
    /\ pc' = [ pc EXCEPT ![r] = "dispatch" ]
    /\ UNCHANGED << variant, today, exists, ledger, resp, answered, console, loc, failedAppend >>

\* send_response, end_headers and the body written to wfile.
Send(r, response) ==
    /\ resp' = [ resp EXCEPT ![r] = Append(@, response) ]
    /\ answered' = [ answered EXCEPT ![r] = Append(@, response.status) ]

Reply(r, response) ==
    /\ Send(r, response)
    /\ pc' = [ pc EXCEPT ![r] = "done" ]

\* A method the class has no do_ method for: the base class answers 501.
Unsupported(r) ==
    /\ pc[r] = "dispatch"
    /\ ~ HasHandler(variant, req[r].method)
    /\ Reply(r, Response(501, "html", "Unsupported method"))
    /\ UNCHANGED << variant, today, dirExists, exists, ledger, pending, accepted,
                    req, console, loc, snap, failedAppend >>

\* do_GET of the enhanced server.
DoGet(r) ==
    /\ pc[r] = "dispatch"
    /\ HasHandler(variant, req[r].method)
    /\ req[r].method = "GET"
    /\ IF req[r].path = "/status"
       THEN Reply(r, Response(200, "status", "running"))
       ELSE Reply(r, Response(404, "empty", ""))
    /\ UNCHANGED << variant, today, dirExists, exists, ledger, pending, accepted,
                    req, console, loc, snap, failedAppend >>

\* do_POST on a path other than /soil-data.
DoPostOther(r) ==
    /\ pc[r] = "dispatch"
    /\ req[r].method = "POST"
    /\ req[r].path # "/soil-data"
    /\ IF variant = "enhanced" /\ req[r].path = "/test"
       THEN Reply(r, Response(200, "liveness", "Soil sensor server is active"))
       ELSE IF variant = "enhanced"
       THEN Reply(r, Response(404, "error", "Endpoint not found"))
       ELSE Reply(r, Response(404, "empty", ""))
    /\ UNCHANGED << variant, today, dirExists, exists, ledger, pending, accepted,
                    req, console, loc, snap, failedAppend >>

\* do_POST on /soil-data, before the try block: int(headers['Content-Length'])
\* and rfile.read.  An exception here is caught by nobody in the handler: the
\* connection is closed without a response.
ReadBody(r) ==
    /\ pc[r] = "dispatch"
    /\ req[r].method = "POST"
    /\ req[r].path = "/soil-data"
    /\ \E c \in ContentLengths :
          /\ req' = [ req EXCEPT ![r].clen = c ]
          /\ pc' = [ pc EXCEPT ![r] = IF c = "ok" THEN "try" ELSE "crashed" ]
    /\ UNCHANGED << variant, today, dirExists, exists, ledger, pending, accepted,
                    resp, answered, console, loc, snap, failedAppend >>

\* The try block up to the console summary, on the bytes rfile.read returned.
Decode(r) ==
    /\ pc[r] = "try"
    /\ \E b \in Bodies :
          LET q == Wire(req[r].method, req[r].path, req[r].clen, b)
              e == DecodeError(variant, q)
          IN /\ req' = [ req EXCEPT ![r] = q ]
             /\ console' = [ console EXCEPT ![r] = @ \o ConsoleLines(variant, q) ]
             /\ IF e = "none"
                THEN /\ pc' = [ pc EXCEPT ![r] = StepAfter("decode") ]
                     /\ loc' = loc
                ELSE /\ pc' = [ pc EXCEPT ![r] = "except" ]
                     /\ loc' = [ loc EXCEPT ![r].err = e ]
    /\ UNCHANGED << variant, today, dirExists, exists, ledger, pending, accepted,
                    resp, answered, snap, failedAppend >>

\* save_to_csv up to file_exists: the basic server creates the data directory,
\* both choose the file of the day and look whether it exists.
SaveBegin(r) ==
    /\ pc[r] = "save"
    /\ dirExists' = (dirExists \/ variant = "basic")
    /\ LET f == FileFor(variant, DataType(variant, req[r]), today)
       IN loc' = [ loc EXCEPT ![r].filename = f, ![r].file_exists = FileExists(f) ]
    /\ pc' = [ pc EXCEPT ![r] = "open" ]
    /\ UNCHANGED << variant, today, exists, ledger, pending, accepted,
                    req, resp, answered, console, snap, failedAppend >>

\* open(filename, 'a') creates the file when it does not exist.
Open(r) ==
    /\ pc[r] = "open"
    /\ dirExists
    /\ exists' = exists \cup { loc[r].filename }
    /\ pc' = [ pc EXCEPT ![r] = "write" ]
    /\ UNCHANGED << variant, today, dirExists, ledger, pending, accepted,
                    req, resp, answered, console, loc, snap, failedAppend >>

\* open raises OSError: nothing is created.
OpenFail(r) ==
    /\ pc[r] = "open"
    /\ loc' = [ loc EXCEPT ![r].err = "OSError" ]
    /\ pc' = [ pc EXCEPT ![r] = "except" ]
    /\ UNCHANGED << variant, today, dirExists, exists, ledger, pending, accepted,
                    req, resp, answered, console, snap, failedAppend >>

\* The header, if the file was new, and the row go to the file's buffer.
Write(r) ==
    /\ pc[r] = "write"
    /\ LET fields == FieldsFor(variant, DataType(variant, req[r]))
           row == Row(r, fields, RowVals(variant, req[r]))
       IN loc' = [ loc EXCEPT ![r].buf =
                     IF loc[r].file_exists THEN << row >> ELSE << Header(fields), row >> ]
    /\ pc' = [ pc EXCEPT ![r] = "close" ]
    /\ UNCHANGED << variant, today, dirExists, exists, ledger, pending, accepted,
                    req, resp, answered, console, snap, failedAppend >>

\* Leaving the with block flushes the buffer to the end of the file.
Close(r) ==
    /\ pc[r] = "close"
    /\ ledger' = [ ledger EXCEPT ![loc[r].filename] = @ \o loc[r].buf ]
    /\ loc' = [ loc EXCEPT ![r].buf = << >> ]
    /\ pc' = [ pc EXCEPT ![r] = StepAfter("save") ]
    /\ UNCHANGED << variant, today, dirExists, exists, pending, accepted,
                    req, resp, answered, console, snap, failedAppend >>

\* The flush raises OSError (disk full, I/O error) after writing part of the
\* buffer, or none of it.
CloseFail(r) ==
    /\ pc[r] = "close"
    /\ \E part \in PartialWrites(loc[r].buf, r) :
          ledger' = [ ledger EXCEPT ![loc[r].filename] = @ \o part ]
    /\ failedAppend' = failedAppend \cup { loc[r].filename }
    /\ loc' = [ loc EXCEPT ![r].buf = << >>, ![r].err = "OSError" ]
    /\ pc' = [ pc EXCEPT ![r] = "except" ]
    /\ UNCHANGED << variant, today, dirExists, exists, pending, accepted,
                    req, resp, answered, console, snap >>

\* The success response.
Respond200(r) ==
    /\ pc[r] = "respond"
    /\ Send(r, Response(200, "success", ""))
    /\ pc' = [ pc EXCEPT ![r] = StepAfter("respond") ]
    /\ UNCHANGED << variant, today, dirExists, exists, ledger, pending, accepted,
                    req, console, loc, snap, failedAppend >>

\* except Exception as e: print the error and answer 400; the enhanced server
\* adds a JSON body with str(e), the basic server sends no body.
Except(r) ==
    /\ pc[r] = "except"
    /\ console' = [ console EXCEPT ![r] = Append(@, "error") ]
    /\ IF variant = "enhanced"
       THEN Reply(r, Response(400, "error", loc[r].err))
       ELSE Reply(r, Response(400, "empty", ""))
    /\ UNCHANGED << variant, today, dirExists, exists, ledger, pending, accepted,
                    req, loc, snap, failedAppend >>

\* The connection is closed and the handler object dropped.
Finish(r) ==
    /\ pc[r] \in {"done", "crashed"}
    /\ pc' = [ pc EXCEPT ![r] = "closed" ]
    /\ req' = [ req EXCEPT ![r] = NoReq ]
    /\ snap' = [ snap EXCEPT ![r] = NoSnap ]
    /\ loc' = [ loc EXCEPT ![r] = [ NoLoc EXCEPT !.filename = loc[r].filename ] ]
    /\ console' = [ console EXCEPT ![r] = << >> ]
    /\ resp' = [ resp EXCEPT ![r] = << >> ]
    /\ UNCHANGED << variant, today, dirExists, exists, ledger, pending, accepted,
                    answered, failedAppend >>

Next ==
    \/ Connect
    \/ Tick
    \/ Restart
    \/ \E r \in Rids :
         \/ Accept(r)
         \/ Unsupported(r)
         \/ DoGet(r)
         \/ DoPostOther(r)
         \/ ReadBody(r)
         \/ Decode(r)
         \/ SaveBegin(r)
         \/ Open(r)
         \/ OpenFail(r)
         \/ Write(r)
         \/ Close(r)
         \/ CloseFail(r)
         \/ Respond200(r)
         \/ Except(r)
         \/ Finish(r)

Spec == Init /\ [][Next]_vars

----------------------------------------------------------------------------
(* Vocabulary of the properties *)

IsIngest(q) == q.method = "POST" /\ q.path = "/soil-data"

IsRoute(q) ==
    \/ IsIngest(q)
    \/ (q.method = "GET" /\ q.path = "/status")
    \/ (q.method = "POST" /\ q.path = "/test")

IsSideEffectFreeRoute(q) ==
    \/ (q.method = "GET" /\ q.path = "/status")
    \/ (q.method = "POST" /\ q.path = "/test")

\* The body was read and is a JSON object with device_id, a numeric timestamp
\* and voltage.
HasRequired(q) ==
    /\ IsIngest(q) /\ q.clen = "ok" /\ q.body = "object"
    /\ q.device_id = "ok" /\ q.timestamp = "ok" /\ q.voltage = "ok"

\* The body was read and does not hold the three required keys.
LacksRequired(q) ==
    /\ IsIngest(q) /\ q.clen = "ok"
    /\ \/ q.body # "object"
       \/ q.device_id = "absent" \/ q.timestamp = "absent" \/ q.voltage = "absent"

\* The positions of the ledger entries (only a file that exists has entries).
Slots == UNION { { << f, i >> : i \in DOMAIN ledger[f] } : f \in exists }

At(s) == ledger[s[1]][s[2]]

\* Where the data rows of request r are, and where anything it wrote is.
RowsOf(r) == { s \in Slots : At(s).kind = "row" /\ At(s).rid = r }

TracesOf(r) == { s \in Slots : At(s).kind # "header" /\ At(s).rid = r }

Headers(f) == { i \in DOMAIN ledger[f] : ledger[f][i].kind = "header" }

Active(r) == pc[r] \notin {"idle", "closed"}

LedgersAsAccepted(r) == exists = snap[r].exists /\ ledger = snap[r].ledger

Status(r) == [ i \in DOMAIN resp[r] |-> resp[r][i].status ]

\* No handler is between the existence check and the response on file f.
Quiescent(f) ==
    \A r \in Rids : loc[r].filename = f => pc[r] \notin {"open", "write", "close", "respond"}

Succeeded(f) == { r \in Rids : answered[r] = << 200 >> /\ loc[r].filename = f }

----------------------------------------------------------------------------
(* C1 *)

\* C1 (as claimed): every POST /soil-data whose body is a JSON object with
\* device_id, timestamp and voltage, whatever it holds of type,
\* moisture_percent and raw_adc, is answered 200 and leaves exactly one new
\* row, in the ledger of its record type.  (A request hit by an I/O error is
\* left out: that failure is not the claim's subject.)
C1_ValidAlwaysAccepted ==
    \A r \in Rids :
        (pc[r] = "done" /\ HasRequired(req[r]) /\ loc[r].err # "OSError")
        => /\ Status(r) = << 200 >>
           /\ Cardinality(RowsOf(r)) = 1

----------------------------------------------------------------------------
(* C2 *)

\* C2: a POST /soil-data whose body lacks device_id, timestamp or voltage
\* never reaches save_to_csv, is answered exactly one 400, and while it is
\* handled no ledger file is created and no ledger gains an entry.
C2_MissingFieldRejected ==
    \A r \in Rids :
        (Active(r) /\ LacksRequired(req[r]))
        => /\ pc[r] \in {"dispatch", "try", "except", "done"}
           /\ LedgersAsAccepted(r)
           /\ TracesOf(r) = {}
           /\ (pc[r] = "done" => Status(r) = << 400 >>)

\* A request lacking a required key has been answered while a ledger with
\* rows exists.
C2_Witness ==
    \E r \in Rids :
        /\ pc[r] = "done" /\ LacksRequired(req[r]) /\ req[r].body = "object"
        /\ req[r].voltage = "absent" /\ req[r].type = "battery"
        /\ Status(r) = << 400 >>
        /\ \E f \in exists : Len(ledger[f]) >= 2

----------------------------------------------------------------------------
(* C3 *)

\* C3: a ledger file that no failed append has touched and that no handler
\* is writing is one header row (the columns of its record type) followed
\* by the rows of exactly the requests answered 200 for that file, in
\* arrival order; restarts between requests change nothing, the header being
\* decided by the file's presence on disk.
C3_OneHeaderThenRows ==
    \A f \in Files :
        (f \notin failedAppend /\ Quiescent(f))
        => IF f \in exists
           THEN /\ Len(ledger[f]) = 1 + Cardinality(Succeeded(f))
                /\ ledger[f][1] = Header(FieldsFor(variant, f[1]))
                /\ \A i \in 2..Len(ledger[f]) :
                      /\ ledger[f][i].kind = "row"
                      /\ ledger[f][i].rid \in Succeeded(f)
                      /\ (i > 2 => ledger[f][i - 1].rid < ledger[f][i].rid)
           ELSE ledger[f] = << >> /\ Succeeded(f) = {}

\* Two requests have been appended to the same file, the server is idle.
C3_Witness ==
    \E f \in exists :
        /\ f \notin failedAppend /\ ServerIdle
        /\ Cardinality(Succeeded(f)) = 2
        /\ Len(ledger[f]) = 3

----------------------------------------------------------------------------
(* C4 *)

\* C4 (as claimed): an accepted reading of type "battery" is in the battery
\* ledger only, with the four battery columns; any other accepted reading is
\* in the soil ledger only, with the six soil columns ending in data_type.
C4_RoutingAsClaimed ==
    \A r \in Rids :
        (pc[r] = "done" /\ IsIngest(req[r]) /\ Status(r) = << 200 >>)
        => \A s \in TracesOf(r) :
              IF req[r].type = "battery"
              THEN s[1][1] = "battery" /\ At(s).cols = BatteryFields
              ELSE s[1][1] = "soil" /\ At(s).cols = SoilFields

\* C4 (amended): in the type-aware server the routing is as claimed; the
\* enhanced server ignores type and appends every accepted reading to the
\* soil ledger with the five columns timestamp, device_id, moisture_percent,
\* voltage, raw_adc.  Either way a request writes one row, to one ledger.
C4_Routing ==
    \A r \in Rids :
        (pc[r] = "done" /\ IsIngest(req[r]) /\ Status(r) = << 200 >>)
        => /\ Cardinality(TracesOf(r)) = 1
           /\ \A s \in TracesOf(r) :
                 /\ At(s).kind = "row"
                 /\ Len(At(s).vals) = Len(At(s).cols)
                 /\ IF variant = "enhanced"
                    THEN s[1][1] = "soil" /\ At(s).cols = EnhancedFields
                    ELSE IF req[r].type = "battery"
                    THEN s[1][1] = "battery" /\ At(s).cols = BatteryFields
                    ELSE /\ s[1][1] = "soil" /\ At(s).cols = SoilFields
                         /\ At(s).vals[6] =
                               (IF req[r].type = "absent" THEN "soil" ELSE req[r].type)

\* The type-aware server holds a battery row in the battery ledger and a row
\* of an unknown type, with defaulted columns, in the soil ledger.
C4_Witness ==
    /\ variant = "basic"
    /\ \E f \in exists : f[1] = "battery" /\ \E i \in DOMAIN ledger[f] : ledger[f][i].kind = "row"
    /\ \E r \in Rids :
          /\ pc[r] = "done" /\ req[r].type = "other" /\ req[r].moisture_percent = "absent"
          /\ Status(r) = << 200 >>
          /\ \E s \in RowsOf(r) : s[1][1] = "soil" /\ At(s).vals[3] = "0"

----------------------------------------------------------------------------
(* C5 *)

\* C5 (as claimed): every POST /soil-data that fails, at whatever step, is
\* answered exactly one 400 whose JSON body has status "error" and the
\* description of the error as its message; none is left unanswered.
C5_EveryFailureAnswered400 ==
    \A r \in Rids :
        (pc[r] \in {"done", "crashed"} /\ IsIngest(req[r]) /\ 200 \notin { Status(r)[i] : i \in DOMAIN resp[r] })
        => /\ Len(resp[r]) = 1
           /\ resp[r][1].status = 400
           /\ resp[r][1].body = "error"
           /\ resp[r][1].message = loc[r].err
           /\ loc[r].err # "none"

----------------------------------------------------------------------------
(* C6 *)

\* C6 (as claimed): a request that is none of POST /soil-data, GET /status,
\* POST /test is answered 404 with the body
\* {"status":"error","message":"Endpoint not found"} and changes no ledger.
\* (Stated of the server that has the three routes.)
C6_UnknownRoute404 ==
    \A r \in Rids :
        (variant = "enhanced" /\ pc[r] = "done" /\ ~ IsRoute(req[r]))
        => /\ resp[r] = << Response(404, "error", "Endpoint not found") >>
           /\ LedgersAsAccepted(r)

----------------------------------------------------------------------------
(* C7 *)

\* C7 (as claimed): POST /test and GET /status are answered 200 and leave
\* the filesystem as it was when the request arrived: no data directory, no
\* ledger file is created, no ledger modified.  (Stated of the server that
\* has the two routes.)
C7_NoSideEffects ==
    \A r \in Rids :
        (variant = "enhanced" /\ pc[r] = "done" /\ IsSideEffectFreeRoute(req[r]))
        => /\ Status(r) = << 200 >>
           /\ FsNow = snap[r]

----------------------------------------------------------------------------
(* C8 *)

\* C8 (as claimed): a POST /soil-data that fails leaves every ledger file as
\* it was before the request: no file created, no header-only file, no
\* partial row.
C8_FailedRequestLeavesNoTrace ==
    \A r \in Rids :
        (pc[r] \in {"except", "done", "crashed"} /\ IsIngest(req[r]) /\ Status(r) # << 200 >>)
        => LedgersAsAccepted(r)

----------------------------------------------------------------------------
(* C9 *)

\* C9: with several connections waiting, at most one handler runs at a time,
\* so appends do not interleave: every ledger has at most one header row and
\* a header is the first entry of its file, every request has at most one
\* entry in the ledgers, and a torn entry is found only in a file whose
\* append failed with an I/O error, never as the result of two handlers
\* writing together.
C9_AppendsDoNotInterleave ==
    /\ Cardinality({ r \in Rids : Active(r) }) <= 1
    /\ \A f \in Files :
          /\ Headers(f) \subseteq {1}
          /\ (f \notin failedAppend =>
                 \A i \in DOMAIN ledger[f] : ledger[f][i].kind # "torn")
    /\ \A s, t \in Slots :
          (At(s).kind # "header" /\ At(t).kind # "header" /\ At(s).rid = At(t).rid) => s = t

\* A handler has found the file missing, opened it and buffered header and
\* row, and is about to flush them while another client waits in the listen
\* queue.
C9_Witness ==
    \E r \in Rids :
        /\ pc[r] = "close" /\ pending > 0
        /\ ~ loc[r].file_exists
        /\ Len(loc[r].buf) = 2

----------------------------------------------------------------------------
(* C10 *)

\* C10: the steps of a POST /soil-data are console log, CSV append, response:
\* a request answered 200 has its row, exactly once, in the ledger it was
\* saved to, also after its connection is closed; a request whose row is in
\* a ledger had its summary printed; a request answered 400 has no row in any
\* ledger; and no request gets more than one status, so never a 200 and a 400.
C10_AckFollowsPersistence ==
    \A r \in Rids :
        LET rows == RowsOf(r)
            codes == { answered[r][i] : i \in DOMAIN answered[r] }
        IN /\ Len(answered[r]) <= 1
           /\ (200 \in codes /\ IsIngest(req[r]) => loc[r].filename \in Files)
           /\ (200 \in codes /\ loc[r].filename \in Files
                  => Cardinality(rows) = 1 /\ \A s \in rows : s[1] = loc[r].filename)
           /\ (400 \in codes => rows = {})
           /\ (Active(r) /\ rows # {} => console[r] # << >>)
           /\ (pc[r] = "closed" /\ rows # {} => answered[r] = << 200 >>)

\* One request has been answered 200 with its row stored, another 400 after
\* its append failed.
C10_Witness ==
    \E r1, r2 \in Rids :
        /\ answered[r1] = << 200 >> /\ RowsOf(r1) # {}
        /\ pc[r2] = "done" /\ answered[r2] = << 400 >> /\ loc[r2].err = "OSError"
        /\ TracesOf(r2) # {}

====
